---------------------------- MODULE Spec2Model ----------------------------
(***************************************************************************)
(* EVDI virtual display support of Sunshine (src/platform/linux/evdi.cpp). *)
(*                                                                         *)
(* Two parts are modelled:                                                 *)
(*   - the descriptor synthesis, generate_dtd / generate_edid, as          *)
(*     operators over 32-bit C integers and bytes;                         *)
(*   - the lifecycle of the process-wide evdi_state, driven by             *)
(*     evdi_prepare_stream and evdi_destroy_virtual_display, statement by  *)
(*     statement, for two streaming sessions that call into it.            *)
(*                                                                         *)
(* Three specifications are given: SpecEdid applies generate_edid to       *)
(* bounded inputs; Spec runs the lifecycle calls one after the other;      *)
(* SpecConc lets the calls of the two sessions interleave between the      *)
(* statements that touch evdi_state (the code takes no lock).              *)
(***************************************************************************)
EXTENDS Integers, Sequences, FiniteSets, TLC

(***************************************************************************)
(* C integer arithmetic on int (32 bit, two's complement).                 *)
(***************************************************************************)

\* x modulo m with a result in 0..m-1 for every integer x
Mod(x, m) == ((x % m) + m) % m

\* floor(x / m)
FloorDiv(x, m) == (x - Mod(x, m)) \div m

\* C's x / m: truncation toward zero
CDiv(x, m) == IF x >= 0 THEN x \div m ELSE -((-x) \div m)

\* x & mask for mask = 2^k - 1, on the two's complement pattern of x
BitAnd(x, mask) == Mod(x, mask + 1)

\* x >> k on int (arithmetic shift)
Shr8(x) == FloorDiv(x, 256)
Shr4(x) == FloorDiv(x, 16)

INT_MAX == 2147483647

\* the i-th byte (i = 0..3) of the two's complement pattern of x
Limb(x, i) ==
  LET d == IF i = 0 THEN 1 ELSE IF i = 1 THEN 256 ELSE IF i = 2 THEN 65536 ELSE 16777216
  IN  Mod(FloorDiv(x, d), 256)

\* a * b reduced to 32 bits and read as int: what a wrapping build computes
Mul32(a, b) ==
  LET c0 == Limb(a, 0) * Limb(b, 0)
      c1 == Limb(a, 0) * Limb(b, 1) + Limb(a, 1) * Limb(b, 0)
      c2 == Limb(a, 0) * Limb(b, 2) + Limb(a, 1) * Limb(b, 1) + Limb(a, 2) * Limb(b, 0)
      c3 == Limb(a, 0) * Limb(b, 3) + Limb(a, 1) * Limb(b, 2)
            + Limb(a, 2) * Limb(b, 1) + Limb(a, 3) * Limb(b, 0)
      k1 == c1 + (c0 \div 256)
      k2 == c2 + (k1 \div 256)
      k3 == c3 + (k2 \div 256)
      r3 == k3 % 256
  IN  (c0 % 256) + 256 * (k1 % 256) + 65536 * (k2 % 256)
      + 16777216 * (IF r3 >= 128 THEN r3 - 256 ELSE r3)

\* the product of the non-negative ints a and b does not fit an int
MulOverflows(a, b) == a > 0 /\ b > INT_MAX \div a

(***************************************************************************)
(* The descriptor template and its synthesis.                              *)
(***************************************************************************)

base_edid ==
  << 0, 255, 255, 255, 255, 255, 255, 0, 16, 172, 0, 0, 0, 0, 0, 0,
     1, 30, 1, 4, 165, 52, 32, 120, 58, 238, 145, 163, 84, 76, 153, 38,
     15, 80, 84, 0, 0, 0, 1, 1, 1, 1, 1, 1, 1, 1, 1, 1,
     1, 1, 1, 1, 1, 1, 2, 58, 128, 24, 113, 56, 45, 64, 88, 44,
     69, 0, 9, 37, 33, 0, 0, 30, 0, 0, 0, 252, 0, 83, 117, 110,
     115, 104, 105, 110, 101, 32, 86, 68, 10, 32, 0, 0, 0, 253, 0, 56,
     76, 30, 83, 17, 0, 10, 32, 32, 32, 32, 32, 32, 0, 0, 0, 16,
     0, 0, 0, 0, 0, 0, 0, 0, 0, 0, 0, 0, 0, 0, 0, 0 >>

\* byte i (counted from 0, as in the C code) of a byte sequence
ByteAt(bytes, i) == bytes[i + 1]

\* The outcomes of the signed overflow in the pixel clock product: a build
\* that wraps at 32 bits, and a build that keeps the wide product until the
\* division.
OverflowOutcomes == {"wrap", "wide"}

h_blank_of(width) == CDiv(width, 5)
v_blank == 30
h_sync == 32
v_sync == 4
v_sync_offset == 3

\* ((width + h_blank) * (height + v_blank) * refresh_rate) / 1000
pixel_clock_khz_of(width, height, refresh_rate, ub) ==
  LET s  == width + h_blank_of(width)
      t  == height + v_blank
      p1 == Mul32(s, t)
      overflow == MulOverflows(s, t) \/ MulOverflows(p1, refresh_rate)
  IN  IF ~overflow THEN CDiv(p1 * refresh_rate, 1000)
      ELSE IF ub = "wrap" THEN CDiv(Mul32(p1, refresh_rate), 1000)
      ELSE (p1 \div 1000) * refresh_rate + (((p1 % 1000) * refresh_rate) \div 1000)

\* dtd[2..4]: horizontal addressable pixels and blanking
dtd_horizontal(width) ==
  LET h_blank == h_blank_of(width)
  IN  << BitAnd(width, 255),
         BitAnd(h_blank, 255),
         BitAnd(Shr8(width), 15) + 16 * BitAnd(Shr8(h_blank), 15) >>

\* dtd[5..7]: vertical addressable lines and blanking
dtd_vertical(height) ==
  << BitAnd(height, 255),
     BitAnd(v_blank, 255),
     BitAnd(Shr8(height), 15) + 16 * BitAnd(Shr8(v_blank), 15) >>

\* dtd[8..11]: sync pulse parameters
dtd_sync(width) ==
  LET h_sync_offset == CDiv(h_blank_of(width) - h_sync, 2)
  IN  << BitAnd(h_sync_offset, 255),
         BitAnd(h_sync, 255),
         16 * BitAnd(v_sync_offset, 15) + BitAnd(v_sync, 15),
         BitAnd(Shr8(h_sync_offset), 3)
           + 4 * BitAnd(Shr8(h_sync), 3)
           + 16 * BitAnd(Shr4(v_sync_offset), 3)
           + 64 * BitAnd(Shr4(v_sync), 3) >>

\* the 18 bytes written through the dtd pointer
generate_dtd(width, height, refresh_rate, ub) ==
  LET pixel_clock_khz == pixel_clock_khz_of(width, height, refresh_rate, ub)
      units == CDiv(pixel_clock_khz, 10)
  IN  << BitAnd(units, 255), BitAnd(Shr8(units), 255) >>
      \o dtd_horizontal(width)
      \o dtd_vertical(height)
      \o dtd_sync(width)
      \o << 32, 52, 0, 0, 0, 30 >>

\* The sum of bytes[lo..hi] (indices counted from 0) reduced modulo 256, as
\* the unsigned char accumulator of the checksum loop holds it.  Addition
\* modulo 256 is associative, so the range is summed by halves.
RECURSIVE SumBytes(_, _, _)
SumBytes(bytes, lo, hi) ==
  IF lo > hi THEN 0
  ELSE IF lo = hi THEN ByteAt(bytes, lo) % 256
  ELSE LET mid == (lo + hi) \div 2
       IN  (SumBytes(bytes, lo, mid) + SumBytes(bytes, mid + 1, hi)) % 256

\* plausible slip: the accumulated sum is stored as it is
checksum_of_plain_sum(bytes) == SumBytes(bytes, 0, Len(bytes) - 2)

\* for (i = 0; i < edid.size() - 1; i++) checksum += edid[i];
\* the value stored in the last byte is (256 - checksum) & 0xFF
checksum_of(bytes) == BitAnd(256 - SumBytes(bytes, 0, Len(bytes) - 2), 255)

\* plausible slip: an HDR request announces one extension block
generate_edid_hdr_extension(width, height, refresh_rate, hdr_enabled, ub) ==
  LET dtd  == generate_dtd(width, height, refresh_rate, ub)
      edid == [i \in 1..Len(base_edid) |->
                 IF (i - 1) \in 54..71 THEN dtd[i - 54]
                 ELSE IF i - 1 = 126 /\ hdr_enabled THEN 1
                 ELSE base_edid[i]]
  IN  [edid EXCEPT ![Len(edid)] = checksum_of(edid)]

\* plausible slip: the timing is written over the second descriptor block
generate_edid_second_block(width, height, refresh_rate, hdr_enabled, ub) ==
  LET dtd  == generate_dtd(width, height, refresh_rate, ub)
      edid == [i \in 1..Len(base_edid) |->
                 IF (i - 1) \in 72..89 THEN dtd[i - 72] ELSE base_edid[i]]
  IN  [edid EXCEPT ![Len(edid)] = checksum_of(edid)]

\* hdr_enabled is tested for a log message only
generate_edid(width, height, refresh_rate, hdr_enabled, ub) ==
  LET dtd  == generate_dtd(width, height, refresh_rate, ub)
      edid == [i \in 1..Len(base_edid) |->
                 IF (i - 1) \in 54..71 THEN dtd[i - 54] ELSE base_edid[i]]
  IN  [edid EXCEPT ![Len(edid)] = checksum_of(edid)]

(***************************************************************************)
(* State.                                                                  *)
(***************************************************************************)

VARIABLES
  evdi_state,   \* the process-wide evdi_state_t
  marker,       \* /sys/devices/evdi exists
  open,         \* the device handles libevdi has open
  connected,    \* the open handles on which a display is connected
  pc,           \* per session: the statement its call is at
  call,         \* per session: the locals and the trace of its call
  last,         \* the call that has just returned, until the next step
  history,      \* what the calls that returned so far amount to
  races,        \* SpecConc: the calls the sessions have made so far
  request,      \* SpecEdid: the arguments of the last generate_edid
  descriptor    \* SpecEdid: what it returned

vars == << evdi_state, marker, open, connected, pc, call, last, history,
           races, request, descriptor >>

lifecycle_vars ==
  << evdi_state, marker, open, connected, pc, call, last, history, races >>

(***************************************************************************)
(* Descriptor synthesis on its own: SpecEdid.                              *)
(***************************************************************************)

Widths  == {1, 100, 255, 256, 1280, 1920, 3840, 4095, 4096, 5120, 7680}
Heights == {1, 255, 256, 720, 1080, 2160, 4095, 4096, 4320}
Rates   == {1, 30, 60, 120, 240}

Requests ==
  [width : Widths, height : Heights, refresh_rate : Rates,
   hdr_enabled : BOOLEAN, ub : OverflowOutcomes]

NoRequest == [width |-> 1920, height |-> 1080, refresh_rate |-> 60,
              hdr_enabled |-> FALSE, ub |-> "wrap"]

\* generate_edid is applied to the request
Generate ==
  /\ descriptor = << >>
  /\ descriptor' = generate_edid(request.width, request.height,
                                 request.refresh_rate, request.hdr_enabled,
                                 request.ub)
  /\ UNCHANGED << request, lifecycle_vars >>

(***************************************************************************)
(* The lifecycle: environment, locals and initial state.                   *)
(***************************************************************************)

Procs == {"s1", "s2"}

EVDI_INVALID_HANDLE == 0

\* bound: the handle values evdi_open can return (a closed one is reused)
MaxHandles == 2
Handles == 1..MaxHandles

\* for (int i = 0; i < 16; i++)
NUM_CARDS == 16
Statuses == {"AVAILABLE", "UNRECOGNIZED", "NOT_PRESENT"}

\* bound: the cards whose status varies on its own; the cards after them
\* share one status
PrefixLen == 2

\* what evdi_check_device can answer for card0..card15 during one scan
DevTables ==
  { [i \in 0..(NUM_CARDS - 1) |-> IF i < PrefixLen THEN pre[i + 1] ELSE rest] :
      pre \in [1..PrefixLen -> Statuses], rest \in Statuses }
  \cup
  { [i \in 0..(NUM_CARDS - 1) |->
       IF i = NUM_CARDS - 1 THEN "AVAILABLE" ELSE "NOT_PRESENT"] }

\* the scans of racing calls: the probe sequence Unrecognized, NotPresent,
\* Available, Available, ..., and no card at all
RaceTables ==
  { [i \in 0..(NUM_CARDS - 1) |->
       IF i = 0 THEN "UNRECOGNIZED" ELSE IF i = 1 THEN "NOT_PRESENT" ELSE "AVAILABLE"],
    [i \in 0..(NUM_CARDS - 1) |-> "NOT_PRESENT"] }

\* video::config_t as far as the code reads it
Configs ==
  { [width |-> 1920, height |-> 1080, framerate |-> 60, dynamicRange |-> 0],
    [width |-> 1280, height |-> 720,  framerate |-> 30, dynamicRange |-> 1] }

evdi_state_t ==
  [handle |-> EVDI_INVALID_HANDLE, is_active |-> FALSE,
   width |-> 1920, height |-> 1080, refresh_rate |-> 60, hdr_enabled |-> FALSE]

NoPrev == [op |-> "none", was_active |-> FALSE]

\* The locals of a call (config, found_device_index, handle, edid_size,
\* display_name) and the trace of what it did to the outside: the state it
\* found (pre), the call that returned before it (prev), the libevdi calls
\* it made, its sleeps (waits), the list it returned (names), what its
\* find_virtual_display call did (lookup: none was made, it raised, it
\* returned virtual_display_id) and its kms_display calls with the name
\* passed and the result (captures); later_available tells whether a card
\* after the one its scan selected would have answered Available.
NoCall ==
  [op |-> "none", config |-> << >>, pre |-> evdi_state_t, prev |-> NoPrev,
   marker_checks |-> 0, probed |-> << >>, answers |-> << >>,
   found_device_index |-> -1, later_available |-> FALSE,
   opens |-> << >>, handle |-> EVDI_INVALID_HANDLE, edid_size |-> 0,
   connects |-> << >>, disconnects |-> << >>, closes |-> << >>,
   waits |-> 0, names |-> << >>,
   display_name |-> "", lookup |-> "none", virtual_display_id |-> "",
   captures |-> << >>]

\* a call that returned: its trace, what it returned and the state it left
NoLast == NoCall @@ [ret |-> "none", post |-> evdi_state_t]

\* bound: the activations that are told apart
MaxActivations == 2

\* created: the last call that changed the lifecycle state was a prepare
\* that returned true, no destroy has returned since; activations: the
\* prepares that found the display inactive and returned true, counted up
\* to MaxActivations; unclosed: the handles evdi_open has returned and that
\* no evdi_close call has been made on
NoHistory == [created |-> FALSE, activations |-> 0, unclosed |-> {}]

Init ==
  /\ evdi_state = evdi_state_t
  /\ marker \in BOOLEAN
  /\ open = {}
  /\ connected = {}
  /\ pc = [p \in Procs |-> "idle"]
  /\ call = [p \in Procs |-> NoCall]
  /\ last = NoLast
  /\ history = NoHistory
  /\ races = 0
  /\ request = NoRequest
  /\ descriptor = << >>

\* any request is made of generate_edid
InitEdid ==
  /\ evdi_state = evdi_state_t
  /\ marker = TRUE
  /\ open = {}
  /\ connected = {}
  /\ pc = [p \in Procs |-> "idle"]
  /\ call = [p \in Procs |-> NoCall]
  /\ last = NoLast
  /\ history = NoHistory
  /\ races = 0
  /\ request \in Requests
  /\ descriptor = << >>

Quiescent == \A q \in Procs : pc[q] = "idle"

\* a call is entered: its record starts from the state it finds
Enter(op, config) ==
  [NoCall EXCEPT !.op = op, !.config = config, !.pre = evdi_state,
                 !.prev = [op |-> last.op, was_active |-> last.pre.is_active]]

\* the unclosed handles once the call of p has gone from its record to rec:
\* a handle rec has got from evdi_open is added, the handle of an evdi_close
\* call rec has made is removed
Unclosed(p, rec) ==
  LET opened == IF rec.handle # call[p].handle
                  THEN {rec.handle} \ {EVDI_INVALID_HANDLE}
                  ELSE {}
      closed == IF Len(rec.closes) > Len(call[p].closes)
                  THEN {rec.closes[Len(rec.closes)]}
                  ELSE {}
  IN  (history.unclosed \cup opened) \ closed

\* the call of p returns ret and leaves state behind
Return(p, rec, ret, state) ==
  /\ pc' = [pc EXCEPT ![p] = "idle"]
  /\ call' = [call EXCEPT ![p] = NoCall]
  /\ last' = rec @@ [ret |-> ret, post |-> state]
  /\ history' =
       IF rec.op = "prepare" /\ ret = "true"
         THEN [created |-> TRUE,
               activations |->
                 IF ~rec.pre.is_active /\ history.activations < MaxActivations
                   THEN history.activations + 1
                   ELSE history.activations,
               unclosed |-> Unclosed(p, rec)]
         ELSE IF rec.op = "destroy"
                THEN [history EXCEPT !.created = FALSE,
                                     !.unclosed = Unclosed(p, rec)]
                ELSE [history EXCEPT !.unclosed = Unclosed(p, rec)]

\* the call of p goes on at label
Goto(p, label, rec) ==
  /\ pc' = [pc EXCEPT ![p] = label]
  /\ call' = [call EXCEPT ![p] = rec]
  /\ last' = NoLast
  /\ history' = [history EXCEPT !.unclosed = Unclosed(p, rec)]

env_vars == << marker, request, descriptor >>

\* bound: the calls made in a run of racing sessions
MaxRaces == 2

(***************************************************************************)
(* evdi_prepare_stream                                                     *)
(*                                                                         *)
(* The libevdi calls are the environment.  evdi_check_device answers any   *)
(* status; evdi_open returns a handle that is not open, returns            *)
(* EVDI_INVALID_HANDLE, or raises; evdi_connect, evdi_disconnect and       *)
(* evdi_close return or raise.  A call raises only where the code encloses *)
(* it in a try block: the evdi_close of the evdi_connect catch blocks is   *)
(* outside any and is taken to return.                                     *)
(***************************************************************************)

\* plausible slip: the is_active test is left out
already_active_never(state) == FALSE

\* if (evdi_state.is_active) return true;
already_active(state) == state.is_active

\* plausible slip: the sysfs marker is not consulted
module_loaded_assumed(m) == TRUE

\* access("/sys/devices/evdi", F_OK) == 0
module_loaded(m) == m

\* The scan loop from card i on: the indices it passes to evdi_check_device,
\* the answers it gets, and the found_device_index it ends with.
RECURSIVE scan_from(_, _, _, _)
scan_from(status, i, probed, answers) ==
  IF i >= NUM_CARDS
    THEN [found_device_index |-> -1, probed |-> probed, answers |-> answers]
    ELSE IF status[i] = "AVAILABLE"
           THEN [found_device_index |-> i, probed |-> Append(probed, i),
                 answers |-> Append(answers, status[i])]
           ELSE scan_from(status, i + 1, Append(probed, i),
                          Append(answers, status[i]))

\* plausible slip: the loop has no break, the last Available card wins
RECURSIVE scan_from_no_break(_, _, _, _, _)
scan_from_no_break(status, i, probed, answers, found) ==
  IF i >= NUM_CARDS
    THEN [found_device_index |-> found, probed |-> probed, answers |-> answers]
    ELSE scan_from_no_break(status, i + 1, Append(probed, i),
                            Append(answers, status[i]),
                            IF status[i] = "AVAILABLE" THEN i ELSE found)

scan_devices_no_break(status) == scan_from_no_break(status, 0, << >>, << >>, -1)

scan_devices(status) == scan_from(status, 0, << >>, << >>)

\* some card after card i answers Available
available_after(status, i) ==
  \E j \in (i + 1)..(NUM_CARDS - 1) : status[j] = "AVAILABLE"

\* entry of the call and the is_active test
PrepareEnter(p, config) ==
  /\ pc[p] = "idle"
  /\ LET rec == Enter("prepare", config)
     IN  IF already_active(evdi_state)
           THEN Return(p, rec, "true", evdi_state)
           ELSE Goto(p, "check_marker", rec)
  /\ UNCHANGED << evdi_state, open, connected, env_vars >>

\* the sysfs marker test
PrepareCheckMarker(p) ==
  /\ pc[p] = "check_marker"
  /\ LET rec == [call[p] EXCEPT !.marker_checks = @ + 1]
     IN  IF module_loaded(marker)
           THEN Goto(p, "scan", rec)
           ELSE Return(p, rec, "false", evdi_state)
  /\ UNCHANGED << evdi_state, open, connected, env_vars >>

\* the scan of card0..card15 and the found_device_index test
PrepareScan(p, tables) ==
  /\ pc[p] = "scan"
  /\ \E status \in tables :
       LET res == scan_devices(status)
           rec == [call[p] EXCEPT
                     !.probed = res.probed,
                     !.answers = res.answers,
                     !.found_device_index = res.found_device_index,
                     !.later_available =
                        /\ res.found_device_index >= 0
                        /\ available_after(status, res.found_device_index)]
       IN  IF res.found_device_index < 0
             THEN Return(p, rec, "false", evdi_state)
             ELSE Goto(p, "open", rec)
  /\ UNCHANGED << evdi_state, open, connected, env_vars >>

\* plausible slip: an evdi_open that raises is tried a second time
PrepareOpen_retries(p) ==
  /\ pc[p] = "open"
  /\ LET rec == [call[p] EXCEPT !.opens = Append(@, call[p].found_device_index)]
     IN  \/ \E h \in Handles \ open :
              /\ open' = open \cup {h}
              /\ Goto(p, "store_handle", [rec EXCEPT !.handle = h])
         \/ /\ open' = open
            /\ Goto(p, "store_handle", [rec EXCEPT !.handle = EVDI_INVALID_HANDLE])
         \/ /\ open' = open
            /\ IF Len(rec.opens) < 2
                 THEN Goto(p, "open", rec)
                 ELSE Return(p, rec, "false", evdi_state)
  /\ UNCHANGED << evdi_state, connected, env_vars >>

\* handle = evdi_open(found_device_index): it returns a handle, it returns
\* EVDI_INVALID_HANDLE, or it raises into one of the catch blocks
PrepareOpen(p) ==
  /\ pc[p] = "open"
  /\ LET rec == [call[p] EXCEPT !.opens = Append(@, call[p].found_device_index)]
     IN  \/ \E h \in Handles \ open :
              /\ open' = open \cup {h}
              /\ Goto(p, "store_handle", [rec EXCEPT !.handle = h])
         \/ /\ open' = open
            /\ Goto(p, "store_handle", [rec EXCEPT !.handle = EVDI_INVALID_HANDLE])
         \/ /\ open' = open
            /\ Return(p, rec, "false", evdi_state)
  /\ UNCHANGED << evdi_state, connected, env_vars >>

\* evdi_state.handle = handle, and the EVDI_INVALID_HANDLE test
PrepareStoreHandle(p) ==
  /\ pc[p] = "store_handle"
  /\ evdi_state' = [evdi_state EXCEPT !.handle = call[p].handle]
  /\ IF evdi_state'.handle = EVDI_INVALID_HANDLE
       THEN Return(p, call[p], "false", evdi_state')
       ELSE Goto(p, "configure", call[p])
  /\ UNCHANGED << open, connected, env_vars >>

\* the four configuration stores and generate_edid
PrepareConfigure(p) ==
  /\ pc[p] = "configure"
  /\ evdi_state' = [evdi_state EXCEPT
                      !.width = call[p].config.width,
                      !.height = call[p].config.height,
                      !.refresh_rate = call[p].config.framerate,
                      !.hdr_enabled = (call[p].config.dynamicRange > 0)]
  /\ \E ub \in OverflowOutcomes :
       LET edid == generate_edid(evdi_state'.width, evdi_state'.height,
                                 evdi_state'.refresh_rate,
                                 evdi_state'.hdr_enabled, ub)
       IN  Goto(p, "connect", [call[p] EXCEPT !.edid_size = Len(edid)])
  /\ UNCHANGED << open, connected, env_vars >>

\* evdi_connect(evdi_state.handle, edid.data(), edid.size(), 0): it returns,
\* or it raises into one of the catch blocks
PrepareConnect(p) ==
  /\ pc[p] = "connect"
  /\ LET h == evdi_state.handle
         rec(ok) == [call[p] EXCEPT
                       !.connects = Append(@, [handle |-> h,
                                               size |-> call[p].edid_size,
                                               ok |-> ok])]
     IN  \/ /\ connected' = connected \cup ({h} \cap open)
            /\ Goto(p, "activate", rec(TRUE))
         \/ /\ connected' = connected
            /\ Goto(p, "connect_failed", rec(FALSE))
  /\ UNCHANGED << evdi_state, open, env_vars >>

\* plausible slip: the catch blocks return false without cleaning up
PrepareConnectFailed_no_rollback(p) ==
  /\ pc[p] = "connect_failed"
  /\ Return(p, call[p], "false", evdi_state)
  /\ UNCHANGED << evdi_state, open, connected, env_vars >>

\* the catch blocks of evdi_connect: close, reset the handle, return false
PrepareConnectFailed(p) ==
  /\ pc[p] = "connect_failed"
  /\ LET h == evdi_state.handle
     IN  /\ open' = open \ {h}
         /\ connected' = connected \ {h}
         /\ evdi_state' = [evdi_state EXCEPT !.handle = EVDI_INVALID_HANDLE]
         /\ Return(p, [call[p] EXCEPT !.closes = Append(@, h)], "false", evdi_state')
  /\ UNCHANGED env_vars

\* evdi_state.is_active = true
PrepareActivate(p) ==
  /\ pc[p] = "activate"
  /\ evdi_state' = [evdi_state EXCEPT !.is_active = TRUE]
  /\ Goto(p, "wait", call[p])
  /\ UNCHANGED << open, connected, env_vars >>

\* plausible slip: the wait polls for the connector and the call fails when
\* the connector does not show up in time
PrepareWait_detection_timeout(p) ==
  /\ pc[p] = "wait"
  /\ \/ Return(p, [call[p] EXCEPT !.waits = @ + 1, !.lookup = "returned"],
               "true", evdi_state)
     \/ Return(p, [call[p] EXCEPT !.waits = @ + 1, !.lookup = "returned"],
               "false", evdi_state)
  /\ UNCHANGED << evdi_state, open, connected, env_vars >>

\* the KMS_DETECTION_WAIT_MS sleep and return true
PrepareWait(p) ==
  /\ pc[p] = "wait"
  /\ Return(p, [call[p] EXCEPT !.waits = @ + 1], "true", evdi_state)
  /\ UNCHANGED << evdi_state, open, connected, env_vars >>

(***************************************************************************)
(* evdi_destroy_virtual_display                                            *)
(***************************************************************************)

\* entry of the call and the is_active test
DestroyEnter(p) ==
  /\ pc[p] = "idle"
  /\ LET rec == Enter("destroy", << >>)
     IN  IF ~evdi_state.is_active
           THEN Return(p, rec, "void", evdi_state)
           ELSE Goto(p, "disconnect", rec)
  /\ UNCHANGED << evdi_state, open, connected, env_vars >>

\* plausible slip: no try block, what evdi_disconnect raises leaves the call
DestroyDisconnect_uncaught(p) ==
  /\ pc[p] = "disconnect"
  /\ LET h == evdi_state.handle
         rec == [call[p] EXCEPT !.disconnects = Append(@, h)]
     IN  IF h # EVDI_INVALID_HANDLE
           THEN \/ /\ connected' = connected \ {h}
                   /\ Goto(p, "close", rec)
                \/ /\ connected' = connected
                   /\ Return(p, rec, "raised", evdi_state)
           ELSE /\ connected' = connected
                /\ Goto(p, "deactivate", call[p])
  /\ UNCHANGED << evdi_state, open, env_vars >>

\* the handle test and evdi_disconnect(evdi_state.handle): it returns, or it
\* raises into one of the catch blocks, which skips evdi_close
DestroyDisconnect(p) ==
  /\ pc[p] = "disconnect"
  /\ LET h == evdi_state.handle
         rec == [call[p] EXCEPT !.disconnects = Append(@, h)]
     IN  IF h # EVDI_INVALID_HANDLE
           THEN \/ /\ connected' = connected \ {h}
                   /\ Goto(p, "close", rec)
                \/ /\ connected' = connected
                   /\ Goto(p, "reset_handle", rec)
           ELSE /\ connected' = connected
                /\ Goto(p, "deactivate", call[p])
  /\ UNCHANGED << evdi_state, open, env_vars >>

\* evdi_close(evdi_state.handle): it returns, or it raises into one of the
\* catch blocks
DestroyClose(p) ==
  /\ pc[p] = "close"
  /\ LET h == evdi_state.handle
     IN  /\ \/ /\ open' = open \ {h}
               /\ connected' = connected \ {h}
            \/ UNCHANGED << open, connected >>
         /\ Goto(p, "reset_handle", [call[p] EXCEPT !.closes = Append(@, h)])
  /\ UNCHANGED << evdi_state, env_vars >>

\* plausible slip: the handle is left in the state after the cleanup
DestroyResetHandle_keeps_handle(p) ==
  /\ pc[p] = "reset_handle"
  /\ Goto(p, "deactivate", call[p])
  /\ UNCHANGED << evdi_state, open, connected, env_vars >>

\* evdi_state.handle = EVDI_INVALID_HANDLE
DestroyResetHandle(p) ==
  /\ pc[p] = "reset_handle"
  /\ evdi_state' = [evdi_state EXCEPT !.handle = EVDI_INVALID_HANDLE]
  /\ Goto(p, "deactivate", call[p])
  /\ UNCHANGED << open, connected, env_vars >>

\* plausible slip: is_active is not cleared
DestroyDeactivate_stays_active(p) ==
  /\ pc[p] = "deactivate"
  /\ Return(p, call[p], "void", evdi_state)
  /\ UNCHANGED << evdi_state, open, connected, env_vars >>

\* evdi_state.is_active = false, and the return
DestroyDeactivate(p) ==
  /\ pc[p] = "deactivate"
  /\ evdi_state' = [evdi_state EXCEPT !.is_active = FALSE]
  /\ Return(p, call[p], "void", evdi_state')
  /\ UNCHANGED << open, connected, env_vars >>

(***************************************************************************)
(* The queries: evdi_display_names, verify_evdi, evdi_is_active.  Each is  *)
(* one step: it reads evdi_state and returns.                              *)
(***************************************************************************)

\* plausible slip: the placeholder is listed only once a display is active
evdi_display_names_active_only(state) ==
  IF state.is_active THEN << "EVDI Virtual Display" >> ELSE << >>

\* result.push_back("EVDI Virtual Display"), whatever is_active, which is
\* read for the log message only
evdi_display_names(state) == << "EVDI Virtual Display" >>

DisplayNames(p) ==
  /\ pc[p] = "idle"
  /\ Return(p, [Enter("display_names", << >>) EXCEPT
                  !.names = evdi_display_names(evdi_state)],
            "list", evdi_state)
  /\ UNCHANGED << evdi_state, open, connected, env_vars >>

\* plausible slip: like verify_evdi, the answer is that of the build
evdi_is_active_compiled_in(state) == TRUE

\* return evdi_state.is_active
evdi_is_active(state) == state.is_active

IsActive(p) ==
  /\ pc[p] = "idle"
  /\ Return(p, Enter("is_active", << >>),
            IF evdi_is_active(evdi_state) THEN "true" ELSE "false", evdi_state)
  /\ UNCHANGED << evdi_state, open, connected, env_vars >>

\* verify_evdi logs and returns true: it does not look for the marker
verify_evdi == TRUE

Verify(p) ==
  /\ pc[p] = "idle"
  /\ Return(p, Enter("verify", << >>),
            IF verify_evdi THEN "true" ELSE "false", evdi_state)
  /\ UNCHANGED << evdi_state, open, connected, env_vars >>

(***************************************************************************)
(* evdi_display, of the build with SUNSHINE_BUILD_DRM: without it the      *)
(* function is `return nullptr`.  find_virtual_display and kms_display are *)
(* extern: the first returns a connector id, returns the empty string or   *)
(* raises; the second returns a display, returns a null pointer or raises. *)
(* The call is one step: it writes no evdi_state.                          *)
(***************************************************************************)

\* the names a caller asks for: none, a connector of the machine
DisplayNameInputs == { "", "HDMI-A-1" }

\* std::string virtual_display_id = find_virtual_display(hwdevice_type)
LookupOutcomes ==
  { [lookup |-> "raised", id |-> ""],
    [lookup |-> "returned", id |-> ""],
    [lookup |-> "returned", id |-> "VIRTUAL-1"] }

\* result = kms_display(hwdevice_type, evdi_display_name, config)
CaptureOutcomes == { "display", "nullptr", "raised" }

\* plausible slip: the display is taken to exist
display_created_assumed(state) == TRUE

\* if (!evdi_state.is_active) return nullptr;
display_created(state) == state.is_active

\* plausible slip: the name the caller configured wins
evdi_display_name_configured(display_name, lookup, virtual_display_id) ==
  display_name

\* evdi_display_name = display_name, replaced by virtual_display_id when
\* the lookup returned one that is not empty
evdi_display_name_of(display_name, lookup, virtual_display_id) ==
  IF lookup = "returned" /\ virtual_display_id # ""
    THEN virtual_display_id
    ELSE display_name

Display(p, display_name, found, capture) ==
  /\ pc[p] = "idle"
  /\ LET rec == [Enter("display", << >>) EXCEPT !.display_name = display_name]
     IN  IF ~display_created(evdi_state)
           THEN Return(p, rec, "nullptr", evdi_state)
           ELSE LET searched == /\ evdi_state.is_active
                                /\ evdi_state.handle # EVDI_INVALID_HANDLE
                    lookup == IF searched THEN found.lookup ELSE "none"
                    id == IF lookup = "returned" THEN found.id ELSE ""
                    name == evdi_display_name_of(display_name, lookup, id)
                    done == [rec EXCEPT
                               !.lookup = lookup,
                               !.virtual_display_id = id,
                               !.captures = << [name |-> name,
                                                result |-> capture] >>]
                IN  Return(p, done,
                           IF capture = "display" THEN "display" ELSE "nullptr",
                           evdi_state)
  /\ UNCHANGED << evdi_state, open, connected, env_vars >>

(***************************************************************************)
(* Specifications.                                                         *)
(***************************************************************************)

\* calls made one after the other, by either session
CallPrepare ==
  \E p \in Procs, config \in Configs :
    Quiescent /\ PrepareEnter(p, config) /\ UNCHANGED races
CallDestroy ==
  \E p \in Procs : Quiescent /\ DestroyEnter(p) /\ UNCHANGED races
CallDisplayNames ==
  \E p \in Procs : Quiescent /\ DisplayNames(p) /\ UNCHANGED races
CallVerify ==
  \E p \in Procs : Quiescent /\ Verify(p) /\ UNCHANGED races
CallIsActive ==
  \E p \in Procs : Quiescent /\ IsActive(p) /\ UNCHANGED races
CallDisplay ==
  \E p \in Procs, display_name \in DisplayNameInputs,
     found \in LookupOutcomes, capture \in CaptureOutcomes :
    Quiescent /\ Display(p, display_name, found, capture) /\ UNCHANGED races

\* calls made by the sessions' threads without waiting for each other
RacePrepare ==
  \E p \in Procs, config \in Configs :
    races < MaxRaces /\ PrepareEnter(p, config) /\ races' = races + 1
RaceDestroy ==
  \E p \in Procs : races < MaxRaces /\ DestroyEnter(p) /\ races' = races + 1

CheckMarker == \E p \in Procs : PrepareCheckMarker(p) /\ UNCHANGED races
Scan == \E p \in Procs : PrepareScan(p, DevTables) /\ UNCHANGED races
RaceScan == \E p \in Procs : PrepareScan(p, RaceTables) /\ UNCHANGED races
Open == \E p \in Procs : PrepareOpen(p) /\ UNCHANGED races
StoreHandle == \E p \in Procs : PrepareStoreHandle(p) /\ UNCHANGED races
Configure == \E p \in Procs : PrepareConfigure(p) /\ UNCHANGED races
Connect == \E p \in Procs : PrepareConnect(p) /\ UNCHANGED races
ConnectFailed == \E p \in Procs : PrepareConnectFailed(p) /\ UNCHANGED races
Activate == \E p \in Procs : PrepareActivate(p) /\ UNCHANGED races
Wait == \E p \in Procs : PrepareWait(p) /\ UNCHANGED races
Disconnect == \E p \in Procs : DestroyDisconnect(p) /\ UNCHANGED races
Close == \E p \in Procs : DestroyClose(p) /\ UNCHANGED races
ResetHandle == \E p \in Procs : DestroyResetHandle(p) /\ UNCHANGED races
Deactivate == \E p \in Procs : DestroyDeactivate(p) /\ UNCHANGED races

Next ==
  \/ CallPrepare \/ CallDestroy
  \/ CallDisplayNames \/ CallVerify \/ CallIsActive \/ CallDisplay
  \/ CheckMarker \/ Scan \/ Open \/ StoreHandle \/ Configure \/ Connect
  \/ ConnectFailed \/ Activate \/ Wait
  \/ Disconnect \/ Close \/ ResetHandle \/ Deactivate

NextConc ==
  \/ RacePrepare \/ RaceDestroy
  \/ CheckMarker \/ RaceScan \/ Open \/ StoreHandle \/ Configure \/ Connect
  \/ ConnectFailed \/ Activate \/ Wait
  \/ Disconnect \/ Close \/ ResetHandle \/ Deactivate

NextEdid == Generate

Spec == Init /\ [][Next]_vars

SpecConc == Init /\ [][NextConc]_vars

SpecEdid == InitEdid /\ [][NextEdid]_vars

(***************************************************************************)
(* Properties.                                                             *)
(***************************************************************************)

Inactive(state) == ~state.is_active /\ state.handle = EVDI_INVALID_HANDLE

\* C1: for every request with positive width, height and refresh rate and
\* either HDR flag, generate_edid returns exactly 128 bytes whose sum is 0
\* modulo 256: byte 127 is (256 - (sum of bytes 0..126 mod 256)) mod 256.
C1_ChecksumZero ==
  descriptor # << >> =>
    /\ request.width > 0 /\ request.height > 0 /\ request.refresh_rate > 0
    /\ Len(descriptor) = 128
    /\ \A i \in 0..127 : ByteAt(descriptor, i) \in 0..255
    /\ SumBytes(descriptor, 0, 127) = 0
    /\ ByteAt(descriptor, 127) = (256 - SumBytes(descriptor, 0, 126)) % 256

\* a descriptor was generated for an HDR request and got a checksum byte
\* other than the template's 0
C1_Witness ==
  /\ descriptor # << >>
  /\ request.hdr_enabled
  /\ ByteAt(descriptor, 127) # ByteAt(base_edid, 127)

\* C2: evdi_destroy_virtual_display leaves the state Inactive whatever state
\* it is called in, and a destroy that directly follows a destroy makes no
\* evdi_disconnect and no evdi_close call.
C2_DestroyIdempotent ==
  last.op = "destroy" =>
    /\ Inactive(last.post)
    /\ Inactive(evdi_state)
    /\ last.prev.op = "destroy" =>
         /\ ~last.pre.is_active
         /\ last.disconnects = << >>
         /\ last.closes = << >>

\* a destroy returned directly after a destroy that found the display active
C2_Witness ==
  /\ last.op = "destroy"
  /\ last.prev.op = "destroy"
  /\ last.prev.was_active

\* C3: evdi_prepare_stream called while the display is active returns true
\* without checking the marker, probing, opening or connecting, and leaves
\* the whole evdi_state as it was, whatever the request.
C3_PrepareWhileActive ==
  (last.op = "prepare" /\ last.pre.is_active) =>
    /\ last.ret = "true"
    /\ last.marker_checks = 0
    /\ last.probed = << >>
    /\ last.opens = << >>
    /\ last.connects = << >>
    /\ last.post = last.pre
    /\ evdi_state = last.pre

\* a prepare returned from an active display whose configuration differs
\* from the request
C3_Witness ==
  /\ last.op = "prepare"
  /\ last.pre.is_active
  /\ last.config.width # last.pre.width
  /\ last.config.height # last.pre.height

\* C4: with the support marker absent, evdi_prepare_stream called while
\* inactive returns false without probing, opening or connecting, and the
\* state stays Inactive.
C4_MarkerAbsent ==
  (last.op = "prepare" /\ ~last.pre.is_active /\ ~marker) =>
    /\ last.ret = "false"
    /\ last.probed = << >>
    /\ last.opens = << >>
    /\ last.connects = << >>
    /\ Inactive(last.post)
    /\ Inactive(evdi_state)

\* a prepare looked for the marker and did not find it
C4_Witness ==
  /\ last.op = "prepare"
  /\ ~marker
  /\ last.marker_checks = 1
  /\ last.ret = "false"

\* C5: the scan probes the indices 0, 1, 2, ... in this order; every answer
\* before the last is not Available; if the last answer is Available its
\* index is the one selected and the only one opened; otherwise all 16
\* indices were probed, nothing is opened and the call fails.
C5_LowestAvailable ==
  (last.op = "prepare" /\ last.probed # << >>) =>
    LET n == Len(last.probed)
    IN  /\ Len(last.answers) = n
        /\ n <= NUM_CARDS
        /\ \A k \in 1..n : last.probed[k] = k - 1
        /\ \A k \in 1..(n - 1) : last.answers[k] # "AVAILABLE"
        /\ IF last.answers[n] = "AVAILABLE"
             THEN /\ last.found_device_index = n - 1
                  /\ last.opens = << n - 1 >>
             ELSE /\ n = NUM_CARDS
                  /\ last.found_device_index = -1
                  /\ last.opens = << >>
                  /\ last.ret = "false"

\* the scan met Unrecognized, NotPresent, Available and selected index 2
C5_Witness ==
  /\ last.op = "prepare"
  /\ last.answers = << "UNRECOGNIZED", "NOT_PRESENT", "AVAILABLE" >>
  /\ last.found_device_index = 2
  /\ last.opens = << 2 >>

\* C6: an evdi_prepare_stream that returns false leaves the state Inactive;
\* the handle it opened, if any, was closed by exactly one evdi_close and is
\* no longer open; if it opened none it closed none.
C6_FailedCreateRollsBack ==
  (last.op = "prepare" /\ last.ret = "false") =>
    /\ Inactive(last.post)
    /\ Inactive(evdi_state)
    /\ IF last.handle # EVDI_INVALID_HANDLE
         THEN /\ last.closes = << last.handle >>
              /\ last.handle \notin open
         ELSE last.closes = << >>

\* a prepare failed in evdi_connect after it had opened a handle
C6_Witness ==
  /\ last.op = "prepare"
  /\ last.ret = "false"
  /\ last.handle # EVDI_INVALID_HANDLE
  /\ Len(last.connects) = 1

\* C7: evdi_destroy_virtual_display called while active returns normally
\* with the state Inactive, also when evdi_disconnect or evdi_close raises.
C7_DestroyAlwaysInactive ==
  (last.op = "destroy" /\ last.pre.is_active) =>
    /\ last.ret = "void"
    /\ ~last.post.is_active
    /\ last.post.handle = EVDI_INVALID_HANDLE
    /\ ~evdi_state.is_active

\* a destroy returned whose evdi_disconnect raised, so that it made no
\* evdi_close
C7_Witness ==
  /\ last.op = "destroy"
  /\ last.pre.is_active
  /\ Len(last.disconnects) = 1
  /\ last.closes = << >>

\* the handles a call has opened and not yet given up, and the stored one
HeldHandles ==
  ({call[p].handle : p \in Procs} \cup {evdi_state.handle}) \cap open

\* C8: racing evdi_prepare_stream calls serialize: at most one device handle
\* is held at any time, and no step replaces a stored handle that is still
\* open by another handle.
C8_Serialized ==
  /\ [](Cardinality(HeldHandles) <= 1)
  /\ [][ (evdi_state.handle # EVDI_INVALID_HANDLE /\ evdi_state.handle \in open)
           => evdi_state'.handle \in {evdi_state.handle, EVDI_INVALID_HANDLE} ]_vars

\* C9: whenever evdi_prepare_stream returns true the display is active at
\* the moment of the return: no destroy runs between its open and its return.
C9_ReturnsActive ==
  (last.op = "prepare" /\ last.ret = "true") => last.post.is_active

\* C10: for every request with positive width and height, 4096 and above
\* included, the preferred-timing block at bytes 54..71 decodes to the
\* requested width and height.
C10_GeometryRoundTrip ==
  descriptor # << >> =>
    /\ ByteAt(descriptor, 54 + 2) + 256 * (ByteAt(descriptor, 54 + 4) % 16)
         = request.width
    /\ ByteAt(descriptor, 54 + 5) + 256 * (ByteAt(descriptor, 54 + 7) % 16)
         = request.height

\* the pixel clock in kHz of the formula, in exact integers:
\* (width + width/5) * (height + 30) * refresh_rate / 1000
ExactClockKHz(width, height, refresh_rate) ==
  LET lines == (width + width \div 5) * (height + 30)
  IN  (lines \div 1000) * refresh_rate
        + ((lines % 1000) * refresh_rate) \div 1000

\* the pixel clock in kHz that bytes 54..55 hold: little-endian, in units
\* of 10 kHz
DecodedClockKHz(bytes) ==
  10 * (ByteAt(bytes, 54) + 256 * ByteAt(bytes, 55))

\* C11: the pixel clock re-derived from bytes 54..55 agrees, within the
\* rounding of the division by 10, with the exact-integer clock of the
\* request, also when the clock exceeds 655350 kHz or the product exceeds
\* the 32-bit signed range; 1920x1080 at 60 Hz gives 15344 units.
C11_PixelClockRoundTrip ==
  descriptor # << >> =>
    LET exact == ExactClockKHz(request.width, request.height,
                               request.refresh_rate)
    IN  /\ DecodedClockKHz(descriptor) <= exact
        /\ exact < DecodedClockKHz(descriptor) + 10
        /\ (request.width = 1920 /\ request.height = 1080
              /\ request.refresh_rate = 60)
             => DecodedClockKHz(descriptor) = 153440

C13_VirtualConnectorOverrides ==
  (last.op = "display" /\ last.pre.is_active) =>
    /\ last.lookup # "none"
    /\ Len(last.captures) = 1
    /\ IF last.lookup = "returned" /\ last.virtual_display_id # ""
         THEN last.captures[1].name = last.virtual_display_id
         ELSE last.captures[1].name = last.display_name

\* the caller asked for HDMI-A-1, the lookup returned VIRTUAL-1 and the
\* capture was opened on VIRTUAL-1
C13_Witness ==
  /\ last.op = "display"
  /\ last.pre.is_active
  /\ last.display_name = "HDMI-A-1"
  /\ last.lookup = "returned"
  /\ last.captures = << [name |-> "VIRTUAL-1", result |-> "display"] >>
  /\ last.ret = "display"

\* C14: evdi_display called while the display is not active returns a null
\* pointer without a find_virtual_display and without a kms_display call;
\* whatever it returns (null, after a capture error, a display) it leaves
\* is_active, the handle and the stored configuration as they were.
C14_DisplayReadsOnly ==
  last.op = "display" =>
    /\ last.post = last.pre
    /\ evdi_state = last.pre
    /\ ~last.pre.is_active =>
         /\ last.ret = "nullptr"
         /\ last.lookup = "none"
         /\ last.captures = << >>

\* evdi_display was called with a name while no display was active, after
\* a prepare that had failed
C14_Witness ==
  /\ last.op = "display"
  /\ ~last.pre.is_active
  /\ last.display_name = "HDMI-A-1"
  /\ last.prev.op = "prepare"
  /\ last.ret = "nullptr"

\* C15: verify_evdi returns false whenever the support marker
\* /sys/devices/evdi is absent.
C15_VerifyReportsSupport ==
  (last.op = "verify" /\ ~marker) => last.ret = "false"

\* C16: in calls made one after the other, evdi_is_active returns true
\* exactly when a prepare has returned true and no destroy has returned
\* since; and every prepare that takes the display from inactive to active,
\* the first as well as one after a destroy, checks the marker, scans,
\* opens and connects.
C16_ActiveTracksLifecycle ==
  /\ last.op = "is_active" => (last.ret = "true" <=> history.created)
  /\ (last.op = "prepare" /\ ~last.pre.is_active /\ last.ret = "true") =>
       /\ last.marker_checks = 1
       /\ last.probed # << >>
       /\ Len(last.opens) = 1
       /\ Len(last.connects) = 1
       /\ history.activations >= 1

\* evdi_is_active returned true for a display that was created, destroyed
\* and created again
C16_Witness ==
  /\ last.op = "is_active"
  /\ last.ret = "true"
  /\ history.activations >= 2

\* C17: the descriptor generate_edid returns for a request equals, byte for
\* byte, the one it returns for the same request with the HDR flag negated,
\* and its extension-count byte 126 is 0.
C17_HdrHasNoEffect ==
  descriptor # << >> =>
    /\ descriptor = generate_edid(request.width, request.height,
                                  request.refresh_rate, ~request.hdr_enabled,
                                  request.ub)
    /\ Len(descriptor) = 128
    /\ ByteAt(descriptor, 126) = 0

\* a descriptor was generated for an HDR request
C17_Witness ==
  /\ descriptor # << >>
  /\ request.hdr_enabled
  /\ ByteAt(descriptor, 126) = 0
  /\ descriptor = generate_edid(request.width, request.height,
                                request.refresh_rate, FALSE, request.ub)

\* C18: a prepare whose evdi_connect succeeded returns true with the display
\* active: it sleeps once, makes no find_virtual_display call, no
\* evdi_disconnect and no evdi_close, and keeps the handle it opened; and
\* is_active is already true while a call is at its wait.
C18_FixedWaitThenActive ==
  /\ (last.op = "prepare" /\ Len(last.connects) = 1 /\ last.connects[1].ok) =>
       /\ last.ret = "true"
       /\ last.post.is_active
       /\ evdi_state.is_active
       /\ last.waits = 1
       /\ last.lookup = "none"
       /\ last.disconnects = << >>
       /\ last.closes = << >>
       /\ last.post.handle = last.handle
       /\ last.handle \in open
  /\ \A p \in Procs : pc[p] = "wait" => evdi_state.is_active

\* a prepare opened, connected, slept and returned true
C18_Witness ==
  /\ last.op = "prepare"
  /\ Len(last.opens) = 1
  /\ Len(last.connects) = 1
  /\ last.connects[1].ok
  /\ last.waits = 1
  /\ last.ret = "true"

\* C19: an evdi_prepare_stream that returns false, whether for the absent
\* marker, for want of an Available device, in evdi_open or in
\* evdi_connect, leaves the whole evdi_state (is_active, handle, width,
\* height, refresh_rate, hdr_enabled) equal to what it was before the call.
C19_FailedCreateKeepsRecord ==
  (last.op = "prepare" /\ last.ret = "false") =>
    /\ last.post = last.pre
    /\ evdi_state = last.pre

\* C20: the descriptor differs from the template at most in bytes 54..71
\* and 127: bytes 0..53 and 72..126 are the template's for every request,
\* and bytes 12..17 of the timing block are 0x20, 0x34, 0, 0, 0, 0x1E.
C20_OnlyTimingAndChecksum ==
  descriptor # << >> =>
    /\ Len(descriptor) = Len(base_edid)
    /\ \A i \in (0..53) \cup (72..126) :
         ByteAt(descriptor, i) = ByteAt(base_edid, i)
    /\ << ByteAt(descriptor, 54 + 12), ByteAt(descriptor, 54 + 13),
          ByteAt(descriptor, 54 + 14), ByteAt(descriptor, 54 + 15),
          ByteAt(descriptor, 54 + 16), ByteAt(descriptor, 54 + 17) >>
         = << 32, 52, 0, 0, 0, 30 >>

\* a descriptor was generated whose timing block differs from the
\* template's in its geometry bytes and keeps the name block
C20_Witness ==
  /\ descriptor # << >>
  /\ request.width = 3840
  /\ ByteAt(descriptor, 54 + 2) # ByteAt(base_edid, 54 + 2)
  /\ ByteAt(descriptor, 127) # ByteAt(base_edid, 127)
  /\ ByteAt(descriptor, 72) = ByteAt(base_edid, 72)

\* C21: between calls made one after the other, is_active is true exactly
\* when the stored handle is valid: an active display holds a handle that
\* is open and on which evdi_connect succeeded, an inactive one holds
\* EVDI_INVALID_HANDLE.
C21_ActiveIffHandle ==
  Quiescent =>
    /\ evdi_state.is_active <=> evdi_state.handle # EVDI_INVALID_HANDLE
    /\ evdi_state.is_active =>
         /\ evdi_state.handle \in open
         /\ evdi_state.handle \in connected
    /\ ~evdi_state.is_active => evdi_state.handle = EVDI_INVALID_HANDLE

\* between two calls the display is active again after a destroy, on a
\* handle that is open and connected
C21_Witness ==
  /\ Quiescent
  /\ last.op = "prepare"
  /\ last.prev.op = "destroy"
  /\ last.prev.was_active
  /\ evdi_state.is_active
  /\ evdi_state.handle \in open \cap connected

\* C22: between calls made one after the other, an inactive display leaves
\* no handle behind that evdi_open returned and evdi_close was not called
\* on; and a destroy of an active display calls evdi_disconnect and then
\* evdi_close on the stored handle, also when evdi_disconnect raises.
C22_NoHandleLeak ==
  /\ (Quiescent /\ ~evdi_state.is_active) => history.unclosed = {}
  /\ (last.op = "destroy" /\ last.pre.is_active) =>
       /\ last.disconnects = << last.pre.handle >>
       /\ last.closes = << last.pre.handle >>

\* C23: a prepare makes at most one evdi_open call; when that call returns
\* EVDI_INVALID_HANDLE or raises, the prepare returns false having probed
\* no card after the one it selected and having opened and connected
\* nothing else, also when a later card is Available.
C23_SingleOpenAttempt ==
  /\ \A p \in Procs : Len(call[p].opens) <= 1
  /\ last.op = "prepare" =>
       /\ Len(last.opens) <= 1
       /\ (Len(last.opens) = 1 /\ last.handle = EVDI_INVALID_HANDLE) =>
            /\ last.ret = "false"
            /\ last.opens = << last.found_device_index >>
            /\ Len(last.probed) = last.found_device_index + 1
            /\ last.connects = << >>

\* the evdi_open of card 0 failed while a later card was Available, and the
\* prepare returned false after that one attempt
C23_Witness ==
  /\ last.op = "prepare"
  /\ last.opens = << 0 >>
  /\ last.handle = EVDI_INVALID_HANDLE
  /\ last.later_available
  /\ last.probed = << 0 >>
  /\ last.ret = "false"

=============================================================================
